---- MODULE Spec2Model ----
(***************************************************************************)
(* Model of the machine UI reconciliation engine of                        *)
(* bedrock-energistics-core (packs/BP/scripts/ui.ts).                      *)
(*                                                                         *)
(* A machine entity's container is the display surface.  Every 5 game      *)
(* ticks the scheduler starts one pass (updateEntityUi) per tracked        *)
(* session; a pass suspends once, on the update handler call, and on       *)
(* resume renders every UI element of the machine definition.              *)
(***************************************************************************)
EXTENDS Integers, Sequences, FiniteSets, Bags, TLC

VARIABLES
    valid,                    \* entity -> BOOLEAN: entity.isValid()
    playersInUi,              \* the session map, in insertion order
    machineChangedItemSlots,  \* block uid -> set of changed slot ids
    pending,                  \* bag of passes suspended on the handler call
    container,                \* entity -> (slot index -> item stack)
    slotItems,                \* block uid -> (slot id -> machine item stack)
    storage,                  \* block uid -> stored amount of the storage type
    playerInv,                \* player -> [cursor, inventory]
    machineRegistry,          \* machine id -> registered definition
    trace                     \* what the last step did (observation only)

vars == <<valid, playersInUi, machineChangedItemSlots, pending,
          container, slotItems, storage, playerInv, machineRegistry, trace>>

----------------------------------------------------------------------------
(* Bounds of the model *)

\* passes that may be suspended on the handler call at the same time
MaxPending == 2
\* slots of a machine entity's container
ContainerSize == 5
\* slots of a player's primary inventory
InventorySize == 1
\* storage-bar directives in one handler response
MaxDirectives == 2
\* largest stack count a player puts in a slot or a machine writes
MaxCount == 2

(* Program constants *)

STORAGE_AMOUNT_PER_BAR_SEGMENT == 100
MAX_MACHINE_STORAGE == STORAGE_AMOUNT_PER_BAR_SEGMENT * 64
\* Math.min(16, remainingSegments): segments shown by one bar slot
BarSlotSegments == 16
\* a storage bar occupies startIndex .. startIndex + 3
BarSlots == 4

PROGRESS_INDICATOR_MAX_VALUES == [arrow |-> 16, flame |-> 13]

----------------------------------------------------------------------------
(* Item stacks *)

NoTag == [kind |-> "none", amount |-> 0, name |-> "", change |-> 0]
CustomTag == [kind |-> "custom", amount |-> 0, name |-> "", change |-> 0]

\* new ItemStack(typeId, amount): a stack with no extra properties.  The
\* type id is a base name plus an optional numeric suffix (n = -1: none).
ItemStack(base, n, amount) ==
    [base |-> base, n |-> n, amount |-> amount, nameTag |-> NoTag]

\* an empty slot (getItem() returns undefined, hasItem() is false)
NoItem == ItemStack("", -1, 0)

\* undefined MachineItemStack
NoMachineItem == [typeIndex |-> -1, count |-> 0]

UiItemBases == {"ui_empty_slot", "ui_disabled_storage_bar_segment",
                "ui_storage_bar_segment_red", "ui_progress_arrow",
                "ui_progress_flame"}

isUiItem(item) == item.base \in UiItemBases

\* inventoryItem?.hasTag("fluffyalien_energisticscore:ui_item")
HasUiTag(item) == item # NoItem /\ isUiItem(item)

\* ItemStack.isStackableWith: same type and same properties, whatever the
\* amounts
isStackableWith(a, b) ==
    a.base = b.base /\ a.n = b.n /\ a.nameTag = b.nameTag

----------------------------------------------------------------------------
(* Ledger (data.ts) *)

\* machineItemStackToItemStack(element, machineItem): the stack that shows
\* a logical slot content, or the empty-slot placeholder
machineItemStackToItemStack(element, machineItem) ==
    IF machineItem # NoMachineItem
    THEN ItemStack(element.allowedItems[machineItem.typeIndex + 1], -1,
                   machineItem.count)
    ELSE ItemStack("ui_empty_slot", -1, 1)

\* getMachineSlotItem(loc, slotId) on the slots of one block
getMachineSlotItem(slots, slotId) == slots[slotId]

\* setMachineSlotItem(loc, slotId, item, setChanged) on the slots and the
\* changed-slot ids of one block: st = [slots, changed]
setMachineSlotItem(st, slotId, item, setChanged) ==
    [slots   |-> [st.slots EXCEPT ![slotId] = item],
     changed |-> IF setChanged THEN st.changed \cup {slotId} ELSE st.changed]

----------------------------------------------------------------------------
(* Drift resolver *)

\* the player's stacks after clearUiItemsFromPlayer(player)
\* ClearedPlayer that clears the cursor only
ClearedPlayer_CursorOnly(pl) ==
    [cursor    |-> IF HasUiTag(pl.cursor) THEN NoItem ELSE pl.cursor,
     inventory |-> pl.inventory]

ClearedPlayer(pl) ==
    [cursor    |-> IF HasUiTag(pl.cursor) THEN NoItem ELSE pl.cursor,
     inventory |-> [i \in DOMAIN pl.inventory |->
                      IF HasUiTag(pl.inventory[i]) THEN NoItem
                      ELSE pl.inventory[i]]]

\* clearUiItemsFromPlayer(player): [player, anythingCleared]
clearUiItemsFromPlayer(pl) ==
    [player          |-> ClearedPlayer(pl),
     anythingCleared |-> ClearedPlayer(pl) # pl]

----------------------------------------------------------------------------
(* Element renderers.  A renderer takes the render state                   *)
(*   w = [inv, slots, changed, pl, log, fatal]                             *)
(* (the entity's container, the block's logical slots and changed slot     *)
(* ids, the observing player's stacks, the events of the elements rendered *)
(* so far) and returns it after the call, with one event appended to log.  *)

Event(element, branch, pre, preLogical) ==
    [element    |-> element.id,
     type       |-> element.type,
     index      |-> element.index,
     slotId     |-> element.slotId,
     branch     |-> branch,
     pre        |-> pre,          \* the element's container slots before
     preLogical |-> preLogical,   \* the logical slot before
     prePlayer  |-> [cursor |-> NoItem, inventory |-> <<>>],
     writes     |-> {},           \* container indexes written
     ledger     |-> <<>>,         \* ledger writes [slotId, item, notify]
     spawned    |-> <<>>,         \* stacks spawned at the player
     cleanups   |-> 0,            \* calls of clearUiItemsFromPlayer
     value      |-> [num |-> 0, den |-> 1],  \* progress value supplied
     barType    |-> "",           \* storage type supplied
     fatal      |-> FALSE]

\* The effects of a renderer act on r = [w, ev]: the render state and the
\* event of the call.

\* setMachineSlotItem(loc, slotId, item, setChanged) called by a renderer:
\* the write, and its record in the event
WriteSlot(r, slotId, item, setChanged) ==
    LET st == setMachineSlotItem([slots |-> r.w.slots,
                                  changed |-> r.w.changed],
                                 slotId, item, setChanged)
    IN  [w  |-> [r.w EXCEPT !.slots = st.slots, !.changed = st.changed],
         ev |-> [r.ev EXCEPT !.ledger = Append(@, [slotId |-> slotId,
                                                   item |-> item,
                                                   notify |-> setChanged])]]

\* clearUiItemsFromPlayer(player) called by a renderer
Cleanup(r) ==
    [w  |-> [r.w EXCEPT !.pl = clearUiItemsFromPlayer(r.w.pl).player],
     ev |-> [r.ev EXCEPT !.cleanups = @ + 1]]

\* player.dimension.spawnItem(item, player.location)
SpawnItem(r, item) ==
    [w |-> r.w, ev |-> [r.ev EXCEPT !.spawned = Append(@, item)]]

\* inventory.setItem(index, item) / containerSlot.setItem(item)
SetItem(r, index, item) ==
    [w  |-> [r.w EXCEPT !.inv[index] = item],
     ev |-> [r.ev EXCEPT !.writes = @ \cup {index}]]

\* the end of a renderer call: its event joins the log
Done(r, branch) ==
    [r.w EXCEPT !.log = Append(@, [r.ev EXCEPT !.branch = branch])]

\* a throw inside a renderer: the pass ends there
Throw(r) ==
    [r.w EXCEPT !.fatal = TRUE,
                !.log = Append(@, [r.ev EXCEPT !.branch = "throw",
                                               !.fatal = TRUE])]

\* Math.floor(amount / STORAGE_AMOUNT_PER_BAR_SEGMENT)
TotalSegments(amount) == amount \div STORAGE_AMOUNT_PER_BAR_SEGMENT

Min(a, b) == IF a < b THEN a ELSE b

\* segments shown by the k-th slot filled (k = 0 is startIndex + 3), as the
\* loop of fillUiBar computes them
RECURSIVE SegmentsAt(_, _)
SegmentsAt(remainingSegments, k) ==
    IF k = 0 THEN Min(BarSlotSegments, remainingSegments)
    ELSE SegmentsAt(remainingSegments
                      - Min(BarSlotSegments, remainingSegments), k - 1)

BarLabel(amount, name, change) ==
    [kind |-> "bar", amount |-> amount, name |-> name, change |-> change]

\* BarItem filling the bar from startIndex upward
BarItem_FromStart(amount, startIndex, i, name, change) ==
    [base    |-> "ui_storage_bar_segment_red",
     n       |-> SegmentsAt(TotalSegments(amount), i - startIndex),
     amount  |-> 1,
     nameTag |-> BarLabel(amount, name, change)]

\* the stack fillUiBar puts in slot i
BarItem(amount, startIndex, i, name, change) ==
    [base    |-> "ui_storage_bar_segment_red",
     n       |-> SegmentsAt(TotalSegments(amount), startIndex + 3 - i),
     amount  |-> 1,
     nameTag |-> BarLabel(amount, name, change)]

\* fillUiBar(..., inventory, amount, startIndex, change)
fillUiBar(inv, amount, startIndex, name, change) ==
    [i \in DOMAIN inv |->
        IF i >= startIndex /\ i <= startIndex + 3
        THEN BarItem(amount, startIndex, i, name, change)
        ELSE inv[i]]

DisabledBarItem ==
    [base |-> "ui_disabled_storage_bar_segment", n |-> -1, amount |-> 1,
     nameTag |-> [kind |-> "disabled", amount |-> 0, name |-> "Disabled",
                  change |-> 0]]

\* fillDisabledUiBar(inventory, startIndex)
fillDisabledUiBar(inv, startIndex) ==
    [i \in DOMAIN inv |->
        IF i >= startIndex /\ i <= startIndex + 3 THEN DisabledBarItem
        ELSE inv[i]]

storageTypeRegistry == [energy |-> [color |-> "red", name |-> "Energy"]]

BarRange(startIndex) == startIndex .. (startIndex + BarSlots - 1)

\* the first of the bar's slots that holds no UI item, or -1
FirstForeign(inv, startIndex) ==
    IF \E i \in BarRange(startIndex) : ~HasUiTag(inv[i])
    THEN CHOOSE i \in BarRange(startIndex) :
            /\ ~HasUiTag(inv[i])
            /\ \A j \in BarRange(startIndex) : j < i => HasUiTag(inv[j])
    ELSE -1

\* lines 145-151: at the first slot f that holds no UI item the player is
\* cleaned up and the stack in f, if any, spawned; the scan ends there
EjectForeign(r, f) ==
    IF f = -1 THEN r
    ELSE IF r.w.inv[f] # NoItem THEN SpawnItem(Cleanup(r), r.w.inv[f])
    ELSE Cleanup(r)

\* lines 139-152: the scan of the bar's slots for a stack that is no UI item
BarDrift(r, startIndex) ==
    EjectForeign(r, FirstForeign(r.w.inv, startIndex))

\* lines 154-177: the bar is filled as disabled or with the stored amount
FillBar(r, amount, startIndex, type, change) ==
    IF type = "_disabled"
    THEN Done([w  |-> [r.w EXCEPT !.inv = fillDisabledUiBar(@, startIndex)],
               ev |-> [r.ev EXCEPT !.writes = BarRange(startIndex)]],
              "disabled")
    ELSE IF type \notin DOMAIN storageTypeRegistry
    THEN Throw(r)
    ELSE Done([w  |-> [r.w EXCEPT
                         !.inv = fillUiBar(@, amount, startIndex,
                                           storageTypeRegistry[type].name,
                                           change)],
               ev |-> [r.ev EXCEPT !.writes = BarRange(startIndex)]],
              "active")

\* handleBarItems(location, inventory, startIndex, player, type, change);
\* amount is getMachineStorage(location, type)
handleBarItems(w, amount, element, type, change) ==
    FillBar(BarDrift([w  |-> w,
                      ev |-> [Event(element, "",
                                    [i \in BarRange(element.startIndex)
                                       |-> w.inv[i]],
                                    NoMachineItem)
                                EXCEPT !.prePlayer = w.pl,
                                       !.barType = type]],
                     element.startIndex),
            amount, element.startIndex, type, change)

\* element.allowedItems.indexOf(typeId): 0-based, -1 when absent
IndexOf(allowedItems, base) ==
    IF \E k \in DOMAIN allowedItems : allowedItems[k] = base
    THEN (CHOOSE k \in DOMAIN allowedItems :
            /\ allowedItems[k] = base
            /\ \A j \in DOMAIN allowedItems :
                  allowedItems[j] = base => k <= j) - 1
    ELSE -1

\* lines 198-201: slotChanged || init
ForcedRender(r, element, expectedItemStack) ==
    Done(SetItem(r, element.index, expectedItemStack), "forced")

\* PlayerCleared without the reset of the logical slot
PlayerCleared_NoReset(r, element) ==
    Done(SetItem(Cleanup(r), element.index,
                 machineItemStackToItemStack(element, NoMachineItem)),
         "cleared")

\* lines 203-208: the container slot is empty
PlayerCleared(r, element) ==
    Done(SetItem(WriteSlot(Cleanup(r), element.slotId, NoMachineItem, FALSE),
                 element.index,
                 machineItemStackToItemStack(element, NoMachineItem)),
         "cleared")

\* QuantitySync writing the expected count instead of the visible one
QuantitySync_Expected(r, element, expectedMachineItem, expectedItemStack) ==
    IF /\ expectedMachineItem # NoMachineItem
       /\ r.w.inv[element.index].amount # expectedItemStack.amount
    THEN Done(WriteSlot(r, element.slotId,
                        [typeIndex |-> expectedMachineItem.typeIndex,
                         count     |-> expectedItemStack.amount],
                        FALSE), "sync")
    ELSE Done(r, "same")

\* QuantitySync that also puts the expected stack back into the slot
QuantitySync_Rewrites(r, element, expectedMachineItem, expectedItemStack) ==
    IF /\ expectedMachineItem # NoMachineItem
       /\ r.w.inv[element.index].amount # expectedItemStack.amount
    THEN Done(SetItem(WriteSlot(r, element.slotId,
                                [typeIndex |-> expectedMachineItem.typeIndex,
                                 count     |-> r.w.inv[element.index].amount],
                                FALSE),
                      element.index, expectedItemStack), "sync")
    ELSE Done(r, "same")

\* lines 210-227: the slot is stackable with the expected stack
QuantitySync(r, element, expectedMachineItem, expectedItemStack) ==
    IF /\ expectedMachineItem # NoMachineItem
       /\ r.w.inv[element.index].amount # expectedItemStack.amount
    THEN Done(WriteSlot(r, element.slotId,
                        [typeIndex |-> expectedMachineItem.typeIndex,
                         count     |-> r.w.inv[element.index].amount],
                        FALSE), "sync")
    ELSE Done(r, "same")

\* Refused taking index 0 for "not found"
Refused_ZeroIsMissing(element, containerSlot) ==
    \/ IndexOf(element.allowedItems, containerSlot.base) < 1
    \/ ~isStackableWith(containerSlot,
                        ItemStack(containerSlot.base, containerSlot.n, 1))

\* lines 231-236: whether the stack in the slot is refused
Refused(element, containerSlot) ==
    \/ IndexOf(element.allowedItems, containerSlot.base) = -1
    \/ ~isStackableWith(containerSlot,
                        ItemStack(containerSlot.base, containerSlot.n, 1))

\* Reject that leaves the logical slot as it was
Reject_KeepsLedger(r, element) ==
    Done(SetItem(SpawnItem(r, r.w.inv[element.index]),
                 element.index,
                 machineItemStackToItemStack(element, NoMachineItem)),
         "reject")

\* lines 237-240: the stack is ejected and the slot emptied
Reject(r, element) ==
    Done(SetItem(SpawnItem(WriteSlot(r, element.slotId, NoMachineItem,
                                     FALSE),
                           r.w.inv[element.index]),
                 element.index,
                 machineItemStackToItemStack(element, NoMachineItem)),
         "reject")

\* Retype whose ledger write marks the slot as changed
Retype_Notify(r, element) ==
    Done(WriteSlot(r, element.slotId,
                   [typeIndex |-> IndexOf(element.allowedItems,
                                          r.w.inv[element.index].base),
                    count     |-> r.w.inv[element.index].amount],
                   TRUE), "retype")

\* lines 243-251: the stack is taken as the slot's new content
Retype(r, element) ==
    Done(WriteSlot(r, element.slotId,
                   [typeIndex |-> IndexOf(element.allowedItems,
                                          r.w.inv[element.index].base),
                    count     |-> r.w.inv[element.index].amount],
                   FALSE), "retype")

\* IsForced ignoring the changed slot ids
IsForced_InitOnly(changedSlots, element, init) == init

\* lines 193-198: whether the call is a forced render; changedSlots is
\* machineChangedItemSlots.get(getBlockUniqueId(loc))
IsForced(changedSlots, element, init) ==
    element.slotId \in changedSlots \/ init

\* lines 203-251: the call is not forced; r holds the state at its start
Reconcile(r, element, expectedMachineItem, expectedItemStack) ==
    IF r.w.inv[element.index] = NoItem
    THEN PlayerCleared(r, element)
    ELSE IF isStackableWith(r.w.inv[element.index], expectedItemStack)
    THEN QuantitySync(r, element, expectedMachineItem, expectedItemStack)
    ELSE IF Refused(element, r.w.inv[element.index])
    THEN Reject(Cleanup(r), element)
    ELSE Retype(Cleanup(r), element)

\* lines 187-201: the expected stack, and the forced render
HandleItemSlotOf(r, element, init, expectedMachineItem) ==
    IF IsForced(r.w.changed, element, init)
    THEN ForcedRender(r, element,
                      machineItemStackToItemStack(element,
                                                  expectedMachineItem))
    ELSE Reconcile(r, element, expectedMachineItem,
                   machineItemStackToItemStack(element, expectedMachineItem))

\* handleItemSlot(loc, inventory, element, player, init)
handleItemSlot(w, element, init) ==
    HandleItemSlotOf(
        [w  |-> w,
         ev |-> [Event(element, "",
                       [i \in {element.index} |-> w.inv[element.index]],
                       getMachineSlotItem(w.slots, element.slotId))
                   EXCEPT !.prePlayer = w.pl]],
        element, init, getMachineSlotItem(w.slots, element.slotId))

\* numbers a handler may answer: num / den
IsInteger(v) == v.num % v.den = 0
Below(v, k) == v.num < k * v.den
Above(v, k) == v.num > k * v.den

\* ValidProgress without the integer test
ValidProgress_AnyNumber(value, maxValue) ==
    ~(Below(value, 0) \/ Above(value, maxValue))

\* line 262: the check of the value against the indicator's maximum
ValidProgress(value, maxValue) ==
    ~(Below(value, 0) \/ Above(value, maxValue) \/ ~IsInteger(value))

\* the stack that shows value on an indicator
ProgressItem(indicator, value) ==
    ItemStack(IF indicator = "arrow" THEN "ui_progress_arrow"
              ELSE "ui_progress_flame",
              value.num \div value.den, 1)

\* lines 270-277: a stack in the slot that is no UI item is ejected
ProgressDrift(r, index) ==
    IF HasUiTag(r.w.inv[index]) THEN r
    ELSE IF r.w.inv[index] # NoItem
    THEN SpawnItem(Cleanup(r), r.w.inv[index])
    ELSE Cleanup(r)

\* lines 261-284: the value is checked, then the slot repaired and written
ProgressOf(r, element, value) ==
    IF ~ValidProgress(value,
                      PROGRESS_INDICATOR_MAX_VALUES[element.indicator])
    THEN Throw(r)
    ELSE Done(SetItem(ProgressDrift(r, element.index), element.index,
                      ProgressItem(element.indicator, value)),
              "progress")

\* handleProgressIndicator(inventory, index, indicator, player, value)
handleProgressIndicator(w, element, value) ==
    ProgressOf([w  |-> w,
                ev |-> [Event(element, "",
                              [i \in {element.index}
                                 |-> w.inv[element.index]],
                              NoMachineItem)
                          EXCEPT !.prePlayer = w.pl, !.value = value]],
               element, value)

----------------------------------------------------------------------------
(* The world of the model *)

Entities == {"e1", "e2"}
Players == {"p1", "p2"}

\* entity.typeId
EntityTypeId(e) == IF e = "e1" THEN "m1" ELSE "m2"

\* getBlockUniqueId of the entity's block-aligned location
BlockOf(e) == IF e = "e1" THEN "b1" ELSE "b2"
Blocks == {BlockOf(e) : e \in Entities}

SlotIds == {0}

\* UI elements (registry_types.ts)
ItemSlotElement(id, index, slotId, allowedItems) ==
    [id |-> id, type |-> "itemSlot", index |-> index, startIndex |-> -1,
     slotId |-> slotId, allowedItems |-> allowedItems, indicator |-> ""]
ProgressIndicatorElement(id, index, indicator) ==
    [id |-> id, type |-> "progressIndicator", index |-> index,
     startIndex |-> -1, slotId |-> -1, allowedItems |-> <<>>,
     indicator |-> indicator]
StorageBarElement(id, startIndex) ==
    [id |-> id, type |-> "storageBar", index |-> -1,
     startIndex |-> startIndex, slotId |-> -1, allowedItems |-> <<>>,
     indicator |-> ""]

\* InternalRegisteredMachine: uiElements in declaration order
Machine(id, persistentEntity, hasUi, uiElements, updateUiEvent) ==
    [id |-> id, defined |-> TRUE, persistentEntity |-> persistentEntity,
     hasUi |-> hasUi, uiElements |-> uiElements,
     updateUiEvent |-> updateUiEvent]

\* machineRegistry[id] of an id that was never registered
Undefined == [id |-> "undefined", defined |-> FALSE,
              persistentEntity |-> FALSE, hasUi |-> FALSE,
              uiElements |-> <<>>, updateUiEvent |-> FALSE]

Lookup(registry, id) ==
    IF id \in DOMAIN registry THEN registry[id] ELSE Undefined

\* machineEntityToBlockIdMap[typeId], "" when the entity type is attached
\* to no machine
machineEntityToBlockIdMap(registry, typeId) ==
    IF typeId \in DOMAIN registry THEN typeId ELSE ""

\* container slots a definition renders to
UsedSlots(def) ==
    UNION {IF def.uiElements[k].type = "storageBar"
           THEN BarRange(def.uiElements[k].startIndex)
           ELSE {def.uiElements[k].index} : k \in DOMAIN def.uiElements}

----------------------------------------------------------------------------
(* The session map: a Map iterates in insertion order *)

MapHas(m, e) == \E k \in DOMAIN m : m[k].entity = e
MapGet(m, e) == (CHOOSE k \in DOMAIN m : m[k].entity = e)
MapKeys(m) == {m[k].entity : k \in DOMAIN m}

\* MapSet adding a second session for an entity that already has one
MapSet_AppendAlways(m, e, p) ==
    Append(m, [entity |-> e, player |-> p])

\* playersInUi.set(entity, player)
MapSet(m, e, p) ==
    IF MapHas(m, e)
    THEN [k \in DOMAIN m |->
            IF m[k].entity = e THEN [entity |-> e, player |-> p] ELSE m[k]]
    ELSE Append(m, [entity |-> e, player |-> p])

\* playersInUi.delete(entity)
MapDelete(m, e) == SelectSeq(m, LAMBDA s : s.entity # e)

----------------------------------------------------------------------------
(* updateEntityUi *)

Pass(definition, entity, player, init) ==
    [def |-> definition.id, entity |-> entity, player |-> player,
     init |-> init]

\* ReachesAwait without the test of the update handler (lines 301-307)
ReachesAwait_NoHandlerCheck(definition) ==
    definition.defined /\ definition.hasUi

\* whether updateEntityUi reaches its await (else it rejects: the
\* definition is missing, has no uiElements or no updateUiEvent)
ReachesAwait(definition) ==
    definition.defined /\ definition.hasUi /\ definition.updateUiEvent

\* Summed where a later directive replaces the change of an earlier one
Summed_LastWins(entry, changeOptions) ==
    [entry EXCEPT !.change = changeOptions.change]

\* line 330: storageBarChanges[changeOptions.element].change +=
\* changeOptions.change
Summed(entry, changeOptions) ==
    [entry EXCEPT !.change = @ + changeOptions.change]

\* lines 329-334: one turn of the merge loop on the directives kept so far
MergeOne(prev, changeOptions) ==
    IF \E j \in DOMAIN prev : prev[j].element = changeOptions.element
    THEN [j \in DOMAIN prev |->
            IF prev[j].element = changeOptions.element
            THEN Summed(prev[j], changeOptions)
            ELSE prev[j]]
    ELSE Append(prev, changeOptions)

\* storageBarChanges after the merge loop over result.storageBars[1..k]
RECURSIVE MergeStorageBars(_, _)
MergeStorageBars(storageBars, k) ==
    IF k = 0 THEN << >>
    ELSE MergeOne(MergeStorageBars(storageBars, k - 1), storageBars[k])

\* storageBarChanges[id], or a record of type "" when undefined
BarChangeFor(merged, id) ==
    IF \E j \in DOMAIN merged : merged[j].element = id
    THEN merged[CHOOSE j \in DOMAIN merged : merged[j].element = id]
    ELSE [element |-> id, type |-> "", change |-> 0]

\* the dispatch of one element in the loop over definition.uiElements
RenderElement(w, element, merged, progressIndicators, amount, init) ==
    IF element.type = "storageBar"
    THEN IF BarChangeFor(merged, element.id).type # ""
         THEN handleBarItems(w, amount, element,
                             BarChangeFor(merged, element.id).type,
                             BarChangeFor(merged, element.id).change)
         ELSE handleBarItems(w, amount, element, "_disabled", 0)
    ELSE IF element.type = "itemSlot"
    THEN handleItemSlot(w, element, init)
    ELSE handleProgressIndicator(w, element,
             IF element.id \in DOMAIN progressIndicators
             THEN progressIndicators[element.id]
             ELSE [num |-> 0, den |-> 1])

\* the loop over definition.uiElements from element k on; a throw ends it
RECURSIVE RenderFrom(_, _, _, _, _, _, _)
RenderFrom(w, uiElements, k, merged, progressIndicators, amount, init) ==
    IF k > Len(uiElements) \/ w.fatal THEN w
    ELSE RenderFrom(RenderElement(w, uiElements[k], merged,
                                  progressIndicators, amount, init),
                    uiElements, k + 1, merged, progressIndicators, amount,
                    init)

----------------------------------------------------------------------------
(* Observation of the last step *)

BlankTrace ==
    [op |-> "init", entity |-> "", player |-> "", init |-> FALSE,
     invalid |-> FALSE,     \* a resumed pass found its entity invalid
     fatal |-> FALSE,       \* the handler or pass ended with an error
     cleared |-> FALSE,     \* machineChangedItemSlots.clear() was reached
     changedBefore |-> {},  \* changed slot ids of the pass's block before
     log |-> <<>>,          \* one event per element rendered
     started |-> {},        \* entities whose pass reached its await
     rejected |-> {},       \* entities whose pass rejected before it
     evicted |-> {},        \* entities deleted from playersInUi
     visited |-> {},        \* sessions the scheduler loop got to
     tracked |-> {},        \* sessions tracked when the tick began
     nearby |-> {},         \* entities with a player within 10 units
     dropped |-> {},        \* item entities the step left in the world
     anythingCleared |-> FALSE,
                            \* what clearUiItemsFromPlayer returned
     unrendered |-> [b \in {"b1", "b2"} |-> {}],
                            \* per block, the slot ids another script has
                            \* changed since a pass last rendered them
     response |-> [storageBars |-> << >>, progressIndicators |-> << >>],
                            \* what the update handler answered the pass
     prev |-> [rendered |-> FALSE, init |-> FALSE, changedBefore |-> {},
               wrote |-> FALSE]]
                            \* the step before, when it was a pass of the
                            \* same entity that rendered every element

\* the record of a step that did nothing yet; the slot ids waiting for a
\* render are carried over from step to step
NoTrace == [BlankTrace EXCEPT !.unrendered = trace.unrendered]

----------------------------------------------------------------------------
(* Scheduler: the system.runInterval callback.  nearby is the set of      *)
(* entities for which getPlayers({location, maxDistance: 10}) is not      *)
(* empty.  The loop runs over the sessions in order; acc is its state.    *)

\* StartPass where a pass that rejects throws into the scheduler loop
StartPass_Throws(acc, definition, entity, player) ==
    IF ReachesAwait(definition)
    THEN [acc EXCEPT
            !.started = @ \cup {Pass(definition, entity, player, FALSE)}]
    ELSE [acc EXCEPT !.rejected = @ \cup {entity}, !.aborted = TRUE]

\* StartPass under a lock per entity: no pass is started for an entity
\* that has a pass suspended on its handler
StartPass_Locked(acc, definition, entity, player) ==
    IF \E q \in BagToSet(pending) : q.entity = entity
    THEN acc
    ELSE IF ReachesAwait(definition)
    THEN [acc EXCEPT
            !.started = @ \cup {Pass(definition, entity, player, FALSE)}]
    ELSE [acc EXCEPT !.rejected = @ \cup {entity}]

\* line 446: void updateEntityUi(definition, entity, player, false).  The
\* call returns a promise: the pass either suspends on the handler call or
\* rejects, and a rejection is not thrown into the loop
StartPass(acc, definition, entity, player) ==
    IF ReachesAwait(definition)
    THEN [acc EXCEPT
            !.started = @ \cup {Pass(definition, entity, player, FALSE)}]
    ELSE [acc EXCEPT !.rejected = @ \cup {entity}]

\* EvictsForDistance that does not look at persistentEntity
EvictsForDistance_AnyMachine(definition, entity, nearby) ==
    entity \notin nearby

\* lines 435-444: a persistent machine with no player within 10 units
EvictsForDistance(definition, entity, nearby) ==
    definition.persistentEntity /\ entity \notin nearby

\* SchedulerDefinition looking the definition up under the entity's own
\* identifier instead of its type id
SchedulerDefinition_ByEntity(registry, entity) ==
    Lookup(registry, entity)

\* line 434: machineRegistry[entity.typeId]
SchedulerDefinition(registry, entity) ==
    Lookup(registry, EntityTypeId(entity))

RECURSIVE TickFrom(_, _, _, _, _)
TickFrom(sessions, k, registry, env, acc) ==
    IF k > Len(sessions) \/ acc.aborted THEN acc
    ELSE
      LET entity == sessions[k].entity
          player == sessions[k].player
          definition == SchedulerDefinition(registry, entity)
          seen == [acc EXCEPT !.visited = @ \cup {entity}]
          next ==
            IF ~env.valid[entity]
            THEN [seen EXCEPT !.map = MapDelete(@, entity),
                              !.evicted = @ \cup {entity}]
            ELSE IF ~definition.defined
            THEN \* definition.persistentEntity of undefined throws
                 [seen EXCEPT !.aborted = TRUE]
            ELSE IF EvictsForDistance(definition, entity, env.nearby)
            THEN [seen EXCEPT !.map = MapDelete(@, entity),
                              !.evicted = @ \cup {entity}]
            ELSE StartPass(seen, definition, entity, player)
      IN TickFrom(sessions, k + 1, registry, env, next)

TickResult(sessions, registry, env) ==
    TickFrom(sessions, 1, registry, env,
             [map |-> sessions, started |-> {}, rejected |-> {},
              evicted |-> {}, visited |-> {}, aborted |-> FALSE])

\* the state after the loop ended with r
TickEnd(r, nearby) ==
    /\ BagCardinality(pending) + Cardinality(r.started) <= MaxPending
    /\ playersInUi' = r.map
    /\ pending' = pending (+) SetToBag(r.started)
    /\ trace' = [NoTrace EXCEPT
                   !.op = "tick",
                   !.fatal = r.aborted,
                   !.started = {q.entity : q \in r.started},
                   !.rejected = r.rejected,
                   !.evicted = r.evicted,
                   !.visited = r.visited,
                   !.tracked = MapKeys(playersInUi),
                   !.nearby = nearby]
    /\ UNCHANGED <<valid, machineChangedItemSlots, container,
                   slotItems, storage, playerInv, machineRegistry>>

Tick(nearby) ==
    TickEnd(TickResult(playersInUi, machineRegistry,
                       [valid |-> valid, nearby |-> nearby]), nearby)

----------------------------------------------------------------------------
(* world.afterEvents.playerInteractWithEntity *)

\* IsAttached that accepts every entity of the machine family
IsAttached_Always(machineId) == TRUE

\* line 404: the entity's type id maps to a machine id
IsAttached(machineId) == machineId # ""

Interact(e, p) ==
    LET machineId == machineEntityToBlockIdMap(machineRegistry,
                                               EntityTypeId(e))
        definition == Lookup(machineRegistry, machineId)
    IN  /\ valid[e]
        /\ IF ~IsAttached(machineId)
           THEN /\ trace' = [NoTrace EXCEPT !.op = "interact",
                                            !.entity = e, !.player = p,
                                            !.fatal = TRUE]
                /\ UNCHANGED <<playersInUi, pending>>
           ELSE /\ IF ReachesAwait(definition)
                   THEN /\ BagCardinality(pending) < MaxPending
                        /\ pending' = pending (+)
                              SetToBag({Pass(definition, e, p, TRUE)})
                   ELSE pending' = pending
                /\ playersInUi' = MapSet(playersInUi, e, p)
                /\ trace' = [NoTrace EXCEPT
                               !.op = "interact",
                               !.entity = e, !.player = p, !.init = TRUE,
                               !.started = IF ReachesAwait(definition)
                                           THEN {e} ELSE {},
                               !.rejected = IF ReachesAwait(definition)
                                            THEN {} ELSE {e}]
        /\ UNCHANGED <<valid, machineChangedItemSlots, container,
                       slotItems, storage, playerInv, machineRegistry>>

----------------------------------------------------------------------------
(* world.afterEvents.entitySpawn *)

\* RemovedOnSpawn that removes no item entity
RemovedOnSpawn_Never(itemStack) == FALSE

\* lines 420-424: the handler removes the item entity of a UI item
RemovedOnSpawn(itemStack) == isUiItem(itemStack)

\* the item entities left in the world after the stacks of spawned were
\* spawned and the handler ran for each
RECURSIVE entitySpawn(_, _, _)
entitySpawn(world, spawned, k) ==
    IF k > Len(spawned) THEN world
    ELSE entitySpawn(IF RemovedOnSpawn(spawned[k]) THEN world
                     ELSE world \cup {spawned[k]},
                     spawned, k + 1)

\* all stacks the events of a log spawned, in order
RECURSIVE SpawnedIn(_, _)
SpawnedIn(log, k) ==
    IF k = 0 THEN << >> ELSE SpawnedIn(log, k - 1) \o log[k].spawned

----------------------------------------------------------------------------
(* The pass after its await: updateEntityUi, lines 316-390 *)

\* AbortsOnResume without the check
AbortsOnResume_Never(isValid) == FALSE

\* lines 318-321: if (!entity.isValid()) return
AbortsOnResume(isValid) == ~isValid

\* the render loop of a pass, lines 345-387: the render state after it
Render(pass, result) ==
    RenderFrom([inv |-> container[pass.entity],
                slots |-> slotItems[BlockOf(pass.entity)],
                changed |-> machineChangedItemSlots[BlockOf(pass.entity)],
                pl |-> playerInv[pass.player], log |-> << >>,
                fatal |-> FALSE],
               Lookup(machineRegistry, pass.def).uiElements, 1,
               MergeStorageBars(result.storageBars,
                                Len(result.storageBars)),
               result.progressIndicators,
               storage[BlockOf(pass.entity)], pass.init)

\* what the step records of a pass of entity e
ResumeTrace(pass) ==
    [NoTrace EXCEPT
       !.op = "resume", !.entity = pass.entity,
       !.player = pass.player, !.init = pass.init,
       !.changedBefore = machineChangedItemSlots[BlockOf(pass.entity)],
       !.prev = [rendered |-> /\ trace.op = "resume"
                              /\ trace.entity = pass.entity
                              /\ trace.cleared,
                 init |-> trace.init,
                 changedBefore |-> trace.changedBefore,
                 wrote |-> \E k \in DOMAIN trace.log :
                              trace.log[k].writes # {}]]

\* the pass resumes: it ends at once when the entity is invalid, else the
\* render loop runs to w and, unless an element threw,
\* machineChangedItemSlots.clear() is reached (line 389)
ResumeEnd(pass, w, t0) ==
    /\ BagIn(pass, pending)
    /\ pending' = pending (-) SetToBag({pass})
    /\ IF AbortsOnResume(valid[pass.entity])
       THEN /\ trace' = [t0 EXCEPT !.invalid = TRUE]
            /\ UNCHANGED <<machineChangedItemSlots, container, slotItems,
                           playerInv>>
       ELSE /\ container' = [container EXCEPT ![pass.entity] = w.inv]
            /\ slotItems' = [slotItems EXCEPT
                                ![BlockOf(pass.entity)] = w.slots]
            /\ playerInv' = [playerInv EXCEPT ![pass.player] = w.pl]
            /\ machineChangedItemSlots' =
                   IF w.fatal
                   THEN [machineChangedItemSlots EXCEPT
                           ![BlockOf(pass.entity)] = w.changed]
                   ELSE [x \in Blocks |-> {}]
            /\ trace' = [t0 EXCEPT
                           !.unrendered[BlockOf(pass.entity)] =
                               @ \ {w.log[k].slotId : k \in DOMAIN w.log},
                           !.log = w.log, !.fatal = w.fatal,
                           !.cleared = ~w.fatal,
                           !.dropped =
                               entitySpawn({}, SpawnedIn(w.log,
                                                         Len(w.log)), 1)]
    /\ UNCHANGED <<valid, playersInUi, storage, machineRegistry>>

Resume(pass, result) ==
    ResumeEnd(pass, Render(pass, result),
              [ResumeTrace(pass) EXCEPT !.response = result])

----------------------------------------------------------------------------
(* The environment: players, machines, the update handler *)

AllowedItems == <<"A", "B">>

\* stacks a player may hold: allowed kinds, a kind no slot allows, and an
\* allowed kind with extra properties (a custom name)
PlayerItems ==
    {ItemStack("A", -1, c) : c \in 1 .. MaxCount}
      \cup {ItemStack("B", -1, 1), ItemStack("X", -1, 1),
            [ItemStack("A", -1, 1) EXCEPT !.nameTag = CustomTag]}

\* logical slot contents a machine may write
MachineItems ==
    {NoMachineItem}
      \cup {[typeIndex |-> t, count |-> c] :
              t \in 0 .. (Len(AllowedItems) - 1), c \in 1 .. MaxCount}

Num(k) == [num |-> k, den |-> 1]

\* values a handler may answer for a progress indicator
ProgressValues ==
    {Num(k) : k \in -1 .. (PROGRESS_INDICATOR_MAX_VALUES.arrow + 1)}
      \cup {[num |-> 1, den |-> 2], [num |-> 27, den |-> 2]}

IdsOfType(definition, type) ==
    {definition.uiElements[k].id :
        k \in {j \in DOMAIN definition.uiElements :
                  definition.uiElements[j].type = type}}

\* UpdateUiHandlerResponse values: up to MaxDirectives storage-bar
\* directives out of the given ones, and a value for any of progressIds
Responses(directives, progressIds, values) ==
    [storageBars :
        UNION {[1 .. n -> directives] : n \in 0 .. MaxDirectives},
     progressIndicators :
        UNION {[S -> values] : S \in SUBSET progressIds}]

\* the responses the handler of a definition may answer for its elements,
\* with storage types, changes and progress values from the given sets
HandlerResponses(definition, types, changes, values) ==
    Responses([element : IdsOfType(definition, "storageBar"),
               type : types, change : changes],
              IdsOfType(definition, "progressIndicator"), values)

\* the entity is removed from the world
Invalidate(e) ==
    /\ valid[e]
    /\ valid' = [valid EXCEPT ![e] = FALSE]
    /\ trace' = [NoTrace EXCEPT !.op = "invalidate", !.entity = e]
    /\ UNCHANGED <<playersInUi, machineChangedItemSlots, pending, container,
                   slotItems, storage, playerInv, machineRegistry>>

\* an authoritative write of a logical slot: setMachineSlotItem with
\* setChanged = true
MachineSetSlotItem(b, slotId, item) ==
    LET st == setMachineSlotItem([slots |-> slotItems[b],
                                  changed |-> machineChangedItemSlots[b]],
                                 slotId, item, TRUE)
    IN  /\ slotItems' = [slotItems EXCEPT ![b] = st.slots]
        /\ machineChangedItemSlots' =
               [machineChangedItemSlots EXCEPT ![b] = st.changed]
        /\ trace' = [NoTrace EXCEPT
                       !.op = "setSlot",
                       !.unrendered[b] = IF st.slots # slotItems[b]
                                         THEN @ \cup {slotId} ELSE @]
        /\ UNCHANGED <<valid, playersInUi, pending, container, storage,
                       playerInv, machineRegistry>>

\* a player with the container open swaps the cursor stack with a slot
PlayerSwap(p, e, i) ==
    /\ valid[e]
    /\ container[e][i] # playerInv[p].cursor
    /\ container' = [container EXCEPT ![e][i] = playerInv[p].cursor]
    /\ playerInv' = [playerInv EXCEPT ![p].cursor = container[e][i]]
    /\ trace' = [NoTrace EXCEPT !.op = "player"]
    /\ UNCHANGED <<valid, playersInUi, machineChangedItemSlots, pending,
                   slotItems, storage, machineRegistry>>

\* a player takes a stack of their own on the cursor, or puts it away
\* (item = NoItem)
PlayerGrab(p, item) ==
    /\ ~HasUiTag(playerInv[p].cursor)
    /\ playerInv[p].cursor # item
    /\ playerInv' = [playerInv EXCEPT ![p].cursor = item]
    /\ trace' = [NoTrace EXCEPT !.op = "player"]
    /\ UNCHANGED <<valid, playersInUi, machineChangedItemSlots, pending,
                   container, slotItems, storage, machineRegistry>>

----------------------------------------------------------------------------
(* Steps over the entities, players and values of a specification *)

TickStep(Es) == \E nearby \in SUBSET Es : Tick(nearby)

InteractStep(Es, Ps) == \E e \in Es, p \in Ps : Interact(e, p)

ResumeStep(types, changes, values) ==
    \E pass \in BagToSet(pending) :
        \E result \in HandlerResponses(Lookup(machineRegistry, pass.def),
                                       types, changes, values) :
            Resume(pass, result)

\* clearUiItemsFromPlayer(player) called on its own
ClearUiItems(p) ==
    /\ playerInv' = [playerInv EXCEPT
                       ![p] = clearUiItemsFromPlayer(playerInv[p]).player]
    /\ trace' = [NoTrace EXCEPT
                   !.op = "cleanup", !.player = p,
                   !.anythingCleared =
                       clearUiItemsFromPlayer(playerInv[p]).anythingCleared]
    /\ UNCHANGED <<valid, playersInUi, machineChangedItemSlots, pending,
                   container, slotItems, storage, machineRegistry>>

ClearStep(Ps) == \E p \in Ps : ClearUiItems(p)

InvalidateStep(Es) == \E e \in Es : Invalidate(e)

SetSlotStep(Es, items) ==
    \E e \in Es, s \in SlotIds, item \in items :
        MachineSetSlotItem(BlockOf(e), s, item)

\* a pending pass resumes with a response made of the given storage-bar
\* directives, which may name elements that are not in the layout
MergeStep(directives, values) ==
    \E pass \in BagToSet(pending) :
        \E result \in Responses(directives,
                                IdsOfType(Lookup(machineRegistry, pass.def),
                                          "progressIndicator"),
                                values) :
            Resume(pass, result)

SwapStep(Es, Ps, Is) ==
    \E p \in Ps, e \in Es, i \in Is : PlayerSwap(p, e, i)

GrabStep(Ps, items) ==
    \E p \in Ps, item \in items \cup {NoItem} : PlayerGrab(p, item)

InitWith(registries, amounts) ==
    /\ valid = [e \in Entities |-> TRUE]
    /\ playersInUi = << >>
    /\ machineChangedItemSlots = [b \in Blocks |-> {}]
    /\ pending = EmptyBag
    /\ container = [e \in Entities |->
                      [i \in 0 .. (ContainerSize - 1) |-> NoItem]]
    /\ slotItems = [b \in Blocks |-> [s \in SlotIds |-> NoMachineItem]]
    /\ storage \in {[b \in Blocks |-> IF b = "b1" THEN a ELSE 0] :
                       a \in amounts}
    /\ playerInv = [p \in Players |->
                      [cursor |-> NoItem,
                       inventory |-> [i \in 1 .. InventorySize |-> NoItem]]]
    /\ machineRegistry \in registries
    /\ trace = BlankTrace

----------------------------------------------------------------------------
(* SpecRender: one machine with one item slot, one player who may put any *)
(* stack in it, a machine that may write any logical content.             *)

ItemSlotMachine(id, persistentEntity) ==
    Machine(id, persistentEntity, TRUE,
            <<ItemSlotElement("slot", 0, 0, AllowedItems)>>, TRUE)

InitRender ==
    InitWith({[m \in {"m1"} |-> ItemSlotMachine("m1", FALSE)]}, {0})

NextRender ==
    \/ TickStep({"e1"})
    \/ InteractStep({"e1"}, {"p1"})
    \/ ResumeStep({}, {}, {})
    \/ InvalidateStep({"e1"})
    \/ SetSlotStep({"e1"}, MachineItems)
    \/ SwapStep({"e1"}, {"p1"}, {0})
    \/ GrabStep({"p1"}, PlayerItems)

SpecRender == InitRender /\ [][NextRender]_vars

----------------------------------------------------------------------------
(* SpecProgress: one machine with a progress indicator, an arrow or a     *)
(* flame, followed by an item slot; one player who may cover them with a  *)
(* stack.                                                                  *)

ProgressMachine(id, indicator) ==
    Machine(id, FALSE, TRUE,
            <<ProgressIndicatorElement("progress", 0, indicator),
              ItemSlotElement("slot", 1, 0, AllowedItems)>>, TRUE)

InitProgress ==
    InitWith({[m \in {"m1"} |-> ProgressMachine("m1", indicator)] :
                 indicator \in DOMAIN PROGRESS_INDICATOR_MAX_VALUES}, {0})

NextProgress ==
    \/ InteractStep({"e1"}, {"p1"})
    \/ ResumeStep({}, {}, ProgressValues)
    \/ SwapStep({"e1"}, {"p1"}, {0})
    \/ GrabStep({"p1"}, {ItemStack("X", -1, 1)})

SpecProgress == InitProgress /\ [][NextProgress]_vars

----------------------------------------------------------------------------
(* SpecBar: one machine with a storage bar, any stored amount.             *)

BarMachine(id) ==
    Machine(id, FALSE, TRUE, <<StorageBarElement("bar", 0)>>, TRUE)

InitBar ==
    InitWith({[m \in {"m1"} |-> BarMachine("m1")]}, 0 .. MAX_MACHINE_STORAGE)

NextBar ==
    \/ InteractStep({"e1"}, {"p1"})
    \/ ResumeStep({"energy"}, {0}, {})

SpecBar == InitBar /\ [][NextBar]_vars

----------------------------------------------------------------------------
(* SpecBarDrift: the storage-bar machine whose player moves an ordinary   *)
(* item and the bar's own segments between the cursor and the four slots  *)
(* of the bar while passes are suspended.                                 *)

InitBarDrift == InitWith({[m \in {"m1"} |-> BarMachine("m1")]}, {250})

NextBarDrift ==
    \/ TickStep({"e1"})
    \/ InteractStep({"e1"}, {"p1"})
    \/ ResumeStep({"energy"}, {0}, {})
    \/ SwapStep({"e1"}, {"p1"}, BarRange(0))
    \/ GrabStep({"p1"}, {ItemStack("X", -1, 1)})

SpecBarDrift == InitBarDrift /\ [][NextBarDrift]_vars

----------------------------------------------------------------------------
(* SpecDrops: the machine with a progress indicator and an item slot,     *)
(* whose player moves the indicator's item, the slot's placeholder and an *)
(* ordinary item between the cursor and the two container slots.          *)

InitDrops == InitWith({[m \in {"m1"} |-> ProgressMachine("m1", "arrow")]}, {0})

NextDrops ==
    \/ TickStep({"e1"})
    \/ InteractStep({"e1"}, {"p1"})
    \/ ResumeStep({}, {}, {Num(1)})
    \/ SwapStep({"e1"}, {"p1"}, {0, 1})
    \/ GrabStep({"p1"}, {ItemStack("X", -1, 1)})

SpecDrops == InitDrops /\ [][NextDrops]_vars

----------------------------------------------------------------------------
(* SpecCleanup: the item-slot machine opened by a player who starts with  *)
(* any of a few stacks, UI items among them, on the cursor and in the     *)
(* inventory.  clearUiItemsFromPlayer runs on its own and inside passes.  *)

\* stacks a player may hold: none, ordinary ones and UI items
HeldItems ==
    {NoItem, ItemStack("X", -1, 1), ItemStack("A", -1, 2),
     [ItemStack("A", -1, 1) EXCEPT !.nameTag = CustomTag],
     ItemStack("ui_empty_slot", -1, 1), ItemStack("ui_progress_arrow", 3, 1),
     ItemStack("ui_disabled_storage_bar_segment", -1, 1)}

InitCleanup ==
    /\ valid = [e \in Entities |-> TRUE]
    /\ playersInUi = << >>
    /\ machineChangedItemSlots = [b \in Blocks |-> {}]
    /\ pending = EmptyBag
    /\ container = [e \in Entities |->
                      [i \in 0 .. (ContainerSize - 1) |-> NoItem]]
    /\ slotItems = [b \in Blocks |-> [s \in SlotIds |-> NoMachineItem]]
    /\ storage = [b \in Blocks |-> 0]
    /\ playerInv \in
          {[p \in Players |->
               IF p = "p1" THEN [cursor |-> held, inventory |-> inventory]
               ELSE [cursor |-> NoItem,
                     inventory |-> [i \in 1 .. InventorySize |-> NoItem]]] :
             held \in HeldItems,
             inventory \in [1 .. InventorySize -> HeldItems]}
    /\ machineRegistry = [m \in {"m1"} |-> ItemSlotMachine("m1", FALSE)]
    /\ trace = BlankTrace

NextCleanup ==
    \/ ClearStep({"p1"})
    \/ TickStep({"e1"})
    \/ InteractStep({"e1"}, {"p1"})
    \/ ResumeStep({}, {}, {})

SpecCleanup == InitCleanup /\ [][NextCleanup]_vars

----------------------------------------------------------------------------
(* SpecMerge: one machine with a storage bar and a progress indicator     *)
(* whose handler answers several directives, for the bar and for an       *)
(* element that is not in the layout, with positive and negative changes. *)

MergeMachine(id) ==
    Machine(id, FALSE, TRUE,
            <<StorageBarElement("bar", 0),
              ProgressIndicatorElement("progress", 4, "arrow")>>,
            TRUE)

\* UiStorageBarUpdateOptions the handler of MergeMachine answers
MergeDirectives ==
    {[element |-> "bar", type |-> "energy", change |-> 5],
     [element |-> "bar", type |-> "energy", change |-> -2],
     [element |-> "other", type |-> "energy", change |-> 5]}

InitMerge == InitWith({[m \in {"m1"} |-> MergeMachine("m1")]}, {250})

NextMerge ==
    \/ InteractStep({"e1"}, {"p1"})
    \/ MergeStep(MergeDirectives, {Num(3)})

SpecMerge == InitMerge /\ [][NextMerge]_vars

----------------------------------------------------------------------------
(* Spec: two machine entities at two blocks, opened by one player.  The    *)
(* first machine has an item slot and a persistent entity (only its       *)
(* sessions depend on a player being near); the second has a progress     *)
(* indicator or a storage bar, or lacks its layout, its handler or its    *)
(* registration.  Handlers may answer an unknown storage type and a       *)
(* progress value out of range.                                           *)

Registries ==
    {[m \in {"m1", "m2"} |->
         IF m = "m1" THEN ItemSlotMachine("m1", TRUE) ELSE m2] :
       m2 \in {Machine("m2", FALSE, TRUE,
                       <<ProgressIndicatorElement("arrow", 0, "arrow")>>,
                       TRUE),
               BarMachine("m2"),
               Machine("m2", FALSE, FALSE, << >>, TRUE),
               Machine("m2", FALSE, TRUE,
                       <<ProgressIndicatorElement("arrow", 0, "arrow")>>,
                       FALSE)}}
      \cup {[m \in {"m1"} |-> ItemSlotMachine("m1", TRUE)]}

\* MachineItemStack values other scripts store in a slot
SetSlotItems == {NoMachineItem, [typeIndex |-> 0, count |-> 1]}

Init == InitWith(Registries, {250})

Next ==
    \/ TickStep({"e1"})
    \/ InteractStep(Entities, {"p1"})
    \/ ResumeStep({"plasma"}, {0}, {Num(17)})
    \/ InvalidateStep(Entities)
    \/ SetSlotStep({"e1"}, SetSlotItems)

Spec == Init /\ [][Next]_vars

----------------------------------------------------------------------------
(* SpecSessions: the two machine entities of Spec opened by two players,  *)
(* with either entity near a player or not at each tick.                  *)

NextSessions ==
    \/ TickStep(Entities)
    \/ InteractStep(Entities, Players)
    \/ ResumeStep({}, {}, {})
    \/ InvalidateStep(Entities)

SpecSessions == Init /\ [][NextSessions]_vars

----------------------------------------------------------------------------
(* Properties of the passes and the scheduler *)

DefinitionOf(e) == Lookup(machineRegistry, EntityTypeId(e))

\* the pass the scheduler starts for a tracked session
TickPass(e) ==
    Pass(DefinitionOf(e), e, playersInUi[MapGet(playersInUi, e)].player,
         FALSE)

\* C1: a changed-slot mark of a block leaves the set only in a pass of an
\* entity at that block that force-rendered the slot; a pass of another
\* entity never removes it.
C1_MarkConsumedByOwner ==
    [][\A b \in Blocks, s \in SlotIds :
          (s \in machineChangedItemSlots[b]
             /\ s \notin machineChangedItemSlots'[b]) =>
              /\ trace'.op = "resume"
              /\ BlockOf(trace'.entity) = b
              /\ \E k \in DOMAIN trace'.log :
                    /\ trace'.log[k].type = "itemSlot"
                    /\ trace'.log[k].slotId = s
                    /\ trace'.log[k].branch = "forced"]_vars

\* C2: a pass that resumes when its entity is invalid has no side effects:
\* no container slot, logical slot, player inventory or changed-slot mark
\* changes, and nothing is rendered or spawned.
C2_AbortOnInvalid ==
    [][(trace'.op = "resume" /\ ~valid[trace'.entity]) =>
          /\ UNCHANGED <<container, slotItems, playerInv,
                         machineChangedItemSlots>>
          /\ trace'.log = << >>
          /\ trace'.dropped = {}]_vars

C2_Witness ==
    /\ trace.op = "resume"
    /\ ~valid[trace.entity]
    /\ ~trace.init
    /\ machineChangedItemSlots[BlockOf(trace.entity)] # {}
    /\ \E k \in DOMAIN DefinitionOf(trace.entity).uiElements :
          DefinitionOf(trace.entity).uiElements[k].type = "itemSlot"

\* C3: an error of one session ends only that session's pass.  A tick
\* starts a pass for every tracked session that stays tracked and whose
\* definition has a layout and a handler, whatever happened to the passes
\* of the sessions before it, and takes no pending pass away; a pass that
\* ends with a fatal error leaves the session map and the other pending
\* passes as they were.
C3_FatalIsolation ==
    [][/\ (/\ trace'.op = "tick"
           /\ \A e \in MapKeys(playersInUi) : DefinitionOf(e).defined) =>
             /\ \A e \in MapKeys(playersInUi) :
                   (e \in MapKeys(playersInUi')
                      /\ ReachesAwait(DefinitionOf(e))) =>
                       CopiesIn(TickPass(e), pending')
                         = CopiesIn(TickPass(e), pending) + 1
             /\ \A q \in BagToSet(pending) :
                   CopiesIn(q, pending') >= CopiesIn(q, pending)
       /\ (trace'.op = "resume" /\ trace'.fatal) =>
             /\ playersInUi' = playersInUi
             /\ pending' = pending (-)
                   SetToBag({Pass(DefinitionOf(trace'.entity), trace'.entity,
                                  trace'.player, trace'.init)})]_vars

\* a tick in which the pass of one session rejected and the pass of a
\* session after it was started
C3_Witness ==
    /\ trace.op = "tick"
    /\ \E i, j \in DOMAIN playersInUi :
          /\ i < j
          /\ playersInUi[i].entity \in trace.rejected
          /\ playersInUi[j].entity \in trace.started

----------------------------------------------------------------------------
(* Properties of the item slot renderer, read from the last step's events *)

EmptySlotItem == ItemStack("ui_empty_slot", -1, 1)

\* the item slot events of the pass that just resumed
ItemSlotEvents ==
    IF trace.op = "resume"
    THEN {trace.log[k] : k \in {j \in DOMAIN trace.log :
                                   trace.log[j].type = "itemSlot"}}
    ELSE {}

ElementOf(ev) ==
    LET els == Lookup(machineRegistry, EntityTypeId(trace.entity)).uiElements
    IN  els[CHOOSE k \in DOMAIN els : els[k].id = ev.element]

EvForced(ev) == trace.init \/ ev.slotId \in trace.changedBefore
PreSlot(ev) == ev.pre[ev.index]
PostSlot(ev) == container[trace.entity][ev.index]
PostLogical(ev) == slotItems[BlockOf(trace.entity)][ev.slotId]
Allowed(ev) == {ElementOf(ev).allowedItems[k] :
                   k \in DOMAIN ElementOf(ev).allowedItems}

\* the stack that shows a logical content
Rendering(ev, machineItem) ==
    IF machineItem = NoMachineItem THEN EmptySlotItem
    ELSE ItemStack(ElementOf(ev).allowedItems[machineItem.typeIndex + 1], -1,
                   machineItem.count)

NoSideEffects(ev) ==
    /\ ev.ledger = << >>
    /\ ev.cleanups = 0
    /\ ev.spawned = << >>
    /\ PostLogical(ev) = ev.preLogical
    /\ playerInv[trace.player] = ev.prePlayer

\* an item of a kind the slot does not allow, or with extra properties
Illegal(ev, item) ==
    /\ item # NoItem
    /\ ~isUiItem(item)
    /\ (item.base \notin Allowed(ev) \/ item.nameTag # NoTag)

\* an item of an allowed kind with no extra properties
Legitimate(ev, item) ==
    /\ item # NoItem
    /\ item.base \in Allowed(ev)
    /\ item.nameTag = NoTag

\* C4: an illegal item found in an item slot by a pass is never destroyed:
\* after the pass it is still in the slot or lies in the world.
C4_IllegalNeverDestroyed ==
    \A ev \in ItemSlotEvents :
        Illegal(ev, PreSlot(ev)) =>
            PostSlot(ev) = PreSlot(ev) \/ PreSlot(ev) \in trace.dropped

\* C5: drift repair keeps a legitimate item in the slot and records it as
\* the logical content {index of its kind, visible count}; nothing is
\* ejected.
C5_LegitimateKept ==
    \A ev \in ItemSlotEvents :
        (~EvForced(ev) /\ Legitimate(ev, PreSlot(ev))) =>
            /\ PostSlot(ev) = PreSlot(ev)
            /\ ev.writes = {}
            /\ ev.spawned = << >>
            /\ PostLogical(ev) =
                 [typeIndex |-> IndexOf(ElementOf(ev).allowedItems,
                                        PreSlot(ev).base),
                  count |-> PreSlot(ev).amount]

C5_Witness ==
    \E ev \in ItemSlotEvents :
        /\ ~EvForced(ev)
        /\ Legitimate(ev, PreSlot(ev))
        /\ ev.preLogical # NoMachineItem
        /\ ev.preLogical.typeIndex # PostLogical(ev).typeIndex

\* C6: a forced call (dirty slot id, or init pass) overwrites the slot with
\* the rendering of the logical content whatever it held, and does nothing
\* else.
C6_ForcedRender ==
    \A ev \in ItemSlotEvents :
        EvForced(ev) =>
            /\ PostSlot(ev) = Rendering(ev, ev.preLogical)
            /\ ev.writes = {ev.index}
            /\ NoSideEffects(ev)

C6_Witness ==
    \E ev \in ItemSlotEvents :
        /\ ~trace.init
        /\ ev.slotId \in trace.changedBefore
        /\ Illegal(ev, PreSlot(ev))
        /\ ev.preLogical # NoMachineItem
        /\ PostSlot(ev) = Rendering(ev, ev.preLogical)

\* C7: the second of two calls in a row, neither forced, with no mutation
\* of the slot in between, writes nothing.
C7_Idempotent ==
    (/\ trace.op = "resume"
     /\ trace.prev.rendered
     /\ ~trace.prev.init
     /\ ~trace.init) =>
        \A ev \in ItemSlotEvents :
            (/\ ev.slotId \notin trace.prev.changedBefore
             /\ ev.slotId \notin trace.changedBefore) =>
                /\ ev.writes = {}
                /\ PostSlot(ev) = PreSlot(ev)
                /\ NoSideEffects(ev)

C7_Witness ==
    /\ trace.op = "resume"
    /\ trace.prev.rendered
    /\ trace.prev.wrote
    /\ ~trace.prev.init
    /\ ~trace.init
    /\ \E ev \in ItemSlotEvents :
          /\ ev.slotId \notin trace.prev.changedBefore
          /\ ev.slotId \notin trace.changedBefore

\* C10: a call that is not forced and finds the slot empty silently empties
\* the logical slot, renders the empty placeholder and spawns nothing.
C10_PlayerCleared ==
    \A ev \in ItemSlotEvents :
        (~EvForced(ev) /\ PreSlot(ev) = NoItem) =>
            /\ ev.ledger = <<[slotId |-> ev.slotId, item |-> NoMachineItem,
                              notify |-> FALSE]>>
            /\ PostLogical(ev) = NoMachineItem
            /\ PostSlot(ev) = EmptySlotItem
            /\ ev.writes = {ev.index}
            /\ ev.spawned = << >>
            /\ trace.dropped = {}

C10_Witness ==
    \E ev \in ItemSlotEvents :
        /\ ~EvForced(ev)
        /\ PreSlot(ev) = NoItem
        /\ ev.preLogical # NoMachineItem
        /\ PostLogical(ev) = NoMachineItem

----------------------------------------------------------------------------
(* Properties of the storage bar and progress indicator renderers *)

\* the storage bar events of the pass that just resumed that filled the bar
ActiveBarEvents ==
    IF trace.op = "resume"
    THEN {trace.log[k] : k \in {j \in DOMAIN trace.log :
                                   /\ trace.log[j].type = "storageBar"
                                   /\ trace.log[j].branch = "active"}}
    ELSE {}

BarStart(ev) == ElementOf(ev).startIndex

\* segments shown by container slot i of the entity of the last pass
Shown(i) == container[trace.entity][i].n

RECURSIVE SumShown(_, _)
SumShown(from, to) ==
    IF from > to THEN 0 ELSE Shown(from) + SumShown(from + 1, to)

\* C8: after an active storage-bar render of a stored amount a in 0..6400
\* each of the four slots shows 0 to 16 segments, the four sum to a \div 100
\* and are non-increasing from startIndex+3 down to startIndex; a = 250 shows
\* 2 in startIndex+3 and 0 in the others.
C8_BarEncoding ==
    \A ev \in ActiveBarEvents :
        LET a  == storage[BlockOf(trace.entity)]
            s0 == BarStart(ev)
        IN  (0 <= a /\ a <= 6400) =>
              /\ \A i \in s0 .. (s0 + 3) :
                    /\ container[trace.entity][i].base
                          = "ui_storage_bar_segment_red"
                    /\ Shown(i) >= 0 /\ Shown(i) <= 16
              /\ SumShown(s0, s0 + 3) = a \div 100
              /\ \A i \in (s0 + 1) .. (s0 + 3) : Shown(i) >= Shown(i - 1)
              /\ a = 250 =>
                    /\ Shown(s0 + 3) = 2
                    /\ \A i \in s0 .. (s0 + 2) : Shown(i) = 0
                    /\ container[trace.entity][s0 + 3].nameTag.amount = 250
                    /\ container[trace.entity][s0 + 3].nameTag.name = "Energy"

C8_Witness ==
    \E ev \in ActiveBarEvents :
        /\ storage[BlockOf(trace.entity)] = 250
        /\ Shown(BarStart(ev) + 3) = 2
        /\ Shown(BarStart(ev)) = 0

\* C9: a progress value that is not an integer in [0, max] of its kind
\* (arrow 16, flame 13) ends the pass at that element before any write,
\* cleanup or eject: the indicator's slot, the player's stacks and the slots
\* of the later elements are as before; an integer in [0, max] is written
\* to the slot as the item of that kind and value.
C9_ProgressValidation ==
    [][trace'.op = "resume" =>
         \A k \in DOMAIN trace'.log :
            LET ev  == trace'.log[k]
                e   == trace'.entity
                els == DefinitionOf(e).uiElements
                max == IF els[k].indicator = "arrow" THEN 16 ELSE 13
                ok  == \E n \in 0 .. max : ev.value.num = n * ev.value.den
            IN  ev.type = "progressIndicator" =>
                  IF ok
                  THEN /\ ~ev.fatal
                       /\ ev.writes = {ev.index}
                       /\ \E n \in 0 .. max :
                             /\ ev.value.num = n * ev.value.den
                             /\ container'[e][ev.index] =
                                   ItemStack(IF els[k].indicator = "arrow"
                                             THEN "ui_progress_arrow"
                                             ELSE "ui_progress_flame", n, 1)
                  ELSE /\ ev.fatal /\ trace'.fatal
                       /\ k = Len(trace'.log)
                       /\ ev.writes = {}
                       /\ ev.cleanups = 0
                       /\ ev.spawned = << >>
                       /\ container'[e][ev.index] = container[e][ev.index]
                       /\ playerInv'[trace'.player] = ev.prePlayer
                       /\ \A j \in (k + 1) .. Len(els) :
                             \A i \in UsedSlots([uiElements |-> <<els[j]>>]) :
                                container'[e][i] = container[e][i]]_vars

\* 17 is answered for an arrow whose slot holds a player's stack
C9_Witness ==
    /\ trace.op = "resume"
    /\ trace.fatal
    /\ \E k \in DOMAIN trace.log :
          /\ trace.log[k].type = "progressIndicator"
          /\ ElementOf(trace.log[k]).indicator = "arrow"
          /\ trace.log[k].value = Num(17)
          /\ trace.log[k].pre[trace.log[k].index] = ItemStack("X", -1, 1)
          /\ container[trace.entity][trace.log[k].index]
                = ItemStack("X", -1, 1)

----------------------------------------------------------------------------
(* The merge of the handler's response *)

\* the changes of the first k directives that name the element id, summed
RECURSIVE SumChanges(_, _, _)
SumChanges(storageBars, id, k) ==
    IF k = 0 THEN 0
    ELSE SumChanges(storageBars, id, k - 1)
         + (IF storageBars[k].element = id THEN storageBars[k].change ELSE 0)

Directed(storageBars, id) ==
    \E k \in DOMAIN storageBars : storageBars[k].element = id

\* C11: when a pass renders, every storage bar of the layout that the
\* response names in at least one directive is drawn with the sum of the
\* changes of all directives naming it, a bar no directive names is drawn
\* disabled, and every progress indicator is drawn at the value the
\* response gives for its id, or at 0 when it gives none.
C11_DirectiveMerge ==
    (trace.op = "resume" /\ ~trace.invalid) =>
        \A k \in DOMAIN trace.log :
            LET ev == trace.log[k]
                bars == trace.response.storageBars
                values == trace.response.progressIndicators
            IN  /\ ev.type = "storageBar" =>
                    IF Directed(bars, ev.element)
                    THEN /\ ev.branch = "active"
                         /\ \A i \in BarStart(ev) .. (BarStart(ev) + BarSlots - 1) :
                                container[trace.entity][i].nameTag.change
                                    = SumChanges(bars, ev.element, Len(bars))
                    ELSE ev.branch = "disabled"
                /\ ev.type = "progressIndicator" =>
                    ev.value = IF ev.element \in DOMAIN values
                               THEN values[ev.element]
                               ELSE Num(0)

C11_Witness ==
    /\ trace.op = "resume"
    /\ ~trace.invalid
    /\ trace.response.storageBars
         = <<[element |-> "bar", type |-> "energy", change |-> 5],
             [element |-> "bar", type |-> "energy", change |-> -2]>>
    /\ "progress" \in DOMAIN trace.response.progressIndicators
    /\ container[trace.entity][0].nameTag.change = 3

----------------------------------------------------------------------------
(* The session map *)

PlayerOf(m, e) == m[MapGet(m, e)].player

\* C12: playersInUi never holds two sessions of one entity; after an
\* interaction that did not fail, the session of the entity is the
\* interacting player's and the other sessions are as before; every other
\* step only removes sessions and never changes the player of one.
C12_SessionUnique ==
    [][/\ \A j, k \in DOMAIN playersInUi' :
              playersInUi'[j].entity = playersInUi'[k].entity => j = k
       /\ IF trace'.op = "interact" /\ ~trace'.fatal
          THEN /\ MapHas(playersInUi', trace'.entity)
               /\ PlayerOf(playersInUi', trace'.entity) = trace'.player
               /\ \A e \in Entities \ {trace'.entity} :
                     /\ MapHas(playersInUi', e) <=> MapHas(playersInUi, e)
                     /\ MapHas(playersInUi, e) =>
                           PlayerOf(playersInUi', e) = PlayerOf(playersInUi, e)
          ELSE \A e \in Entities :
                  MapHas(playersInUi', e) =>
                     /\ MapHas(playersInUi, e)
                     /\ PlayerOf(playersInUi', e) = PlayerOf(playersInUi, e)
      ]_vars

\* the second player has just taken over the session of an entity whose
\* pass for the first player is still suspended, the other entity tracked
C12_Witness ==
    /\ trace.op = "interact"
    /\ trace.player = "p2"
    /\ playersInUi = <<[entity |-> "e2", player |-> "p1"],
                       [entity |-> "e1", player |-> "p2"]>>
    /\ \E q \in BagToSet(pending) : q.entity = "e1" /\ q.player = "p1"

----------------------------------------------------------------------------
(* The scheduler tick *)

\* how many more copies of the pass q are suspended after the step
NewCopies(q) == CopiesIn(q, pending') - CopiesIn(q, pending)

\* passes of the entity e whose number of suspended copies changed
ChangedPasses(e) ==
    {q \in BagToSet(pending) \cup BagToSet(pending') :
        q.entity = e /\ NewCopies(q) # 0}

\* C13: a tick evicts every tracked session whose entity is invalid, or
\* whose machine is persistent while no player is within 10 units, and
\* starts no pass for it; for every other tracked session it keeps the
\* session and starts exactly one non-init pass for the session's player,
\* which is suspended on the handler when the tick ends (or has rejected
\* on the definition's preconditions); untracked entities get no pass.
\* A session of a non-persistent machine is never evicted for distance.
C13_SchedulerTick ==
    [][(trace'.op = "tick" /\ ~trace'.fatal) =>
        \A e \in Entities :
            IF ~MapHas(playersInUi, e)
            THEN /\ ~MapHas(playersInUi', e)
                 /\ ChangedPasses(e) = {}
            ELSE IF \/ ~valid[e]
                    \/ /\ DefinitionOf(e).persistentEntity
                       /\ e \notin trace'.nearby
            THEN /\ e \in trace'.evicted
                 /\ ~MapHas(playersInUi', e)
                 /\ ChangedPasses(e) = {}
            ELSE /\ e \notin trace'.evicted
                 /\ MapHas(playersInUi', e)
                 /\ PlayerOf(playersInUi', e) = PlayerOf(playersInUi, e)
                 /\ IF ReachesAwait(DefinitionOf(e))
                    THEN LET q == Pass(DefinitionOf(e), e,
                                       PlayerOf(playersInUi, e), FALSE)
                         IN  /\ ChangedPasses(e) = {q}
                             /\ NewCopies(q) = 1
                    ELSE /\ e \in trace'.rejected
                         /\ ChangedPasses(e) = {}
      ]_vars

\* a tick with no player near either machine evicted the persistent one
\* and started a pass for the other
C13_Witness ==
    /\ trace.op = "tick"
    /\ trace.nearby = {}
    /\ trace.tracked = {"e1", "e2"}
    /\ trace.evicted = {"e1"}
    /\ trace.started = {"e2"}
    /\ valid["e1"]

----------------------------------------------------------------------------
(* Drift repair of the storage bar *)

BarEvents ==
    IF trace.op = "resume"
    THEN {trace.log[k] : k \in {j \in DOMAIN trace.log :
                                   trace.log[j].type = "storageBar"}}
    ELSE {}

\* the slots of the bar that held a stack without the UI tag before the call
ForeignSlots(ev) ==
    {i \in DOMAIN ev.pre : ev.pre[i] # NoItem /\ ~isUiItem(ev.pre[i])}

\* C14: whenever a storage bar is rendered, active or disabled, while some
\* of its four slots hold stacks without the UI tag, the player is cleaned
\* up and each of those stacks is spawned at the player, as many times as
\* it occurred, before the four slots are overwritten.
C14_BarDriftRepair ==
    \A ev \in BarEvents :
        ForeignSlots(ev) # {} =>
            /\ ev.cleanups >= 1
            /\ \A i \in ForeignSlots(ev) :
                  Cardinality({k \in DOMAIN ev.spawned :
                                  ev.spawned[k] = ev.pre[i]})
                    >= Cardinality({j \in ForeignSlots(ev) :
                                       ev.pre[j] = ev.pre[i]})

----------------------------------------------------------------------------
(* Passes of one entity that overlap *)

\* the number of passes of the entity e suspended in the bag of passes
PendingOf(passes, e) ==
    BagCardinality([q \in {x \in BagToSet(passes) : x.entity = e} |->
                      passes[q]])

\* every element of the layout of the last pass has been rendered
RenderedAll ==
    /\ trace.op = "resume"
    /\ trace.cleared
    /\ Len(trace.log) = Len(DefinitionOf(trace.entity).uiElements)

\* C15: a tick starts a pass for a session it keeps even when passes of
\* the same entity are still suspended on the handler, so that two or more
\* passes of one entity are pending together; a pass that resumes while
\* others of its entity are pending leaves them pending and, the entity
\* being valid and no element failing, renders every element.
C15_OverlappingPasses ==
    [][/\ (trace'.op = "tick" /\ ~trace'.fatal) =>
            \A e \in trace'.tracked \ trace'.evicted :
                (ReachesAwait(DefinitionOf(e)) /\ PendingOf(pending, e) >= 1)
                    => PendingOf(pending', e) = PendingOf(pending, e) + 1
       /\ trace'.op = "resume" =>
            /\ PendingOf(pending', trace'.entity)
                 = PendingOf(pending, trace'.entity) - 1
            /\ (~trace'.invalid /\ ~trace'.fatal) => RenderedAll'
      ]_vars

\* the init pass and a pass started by a tick were suspended together and
\* have rendered one after the other
C15_Witness ==
    /\ RenderedAll
    /\ Len(trace.log) >= 1
    /\ ~trace.init
    /\ trace.prev.rendered
    /\ trace.prev.init

----------------------------------------------------------------------------
(* Quantity sync and silent corrections of the item slot renderer *)

\* C16: a call that is not forced and finds in the slot a stack stackable
\* with the rendering of the logical content: when a logical item exists
\* and the visible count differs from its count, the logical slot is set
\* silently to the same typeIndex with the visible count and the container
\* slot is not written; otherwise the call changes nothing.
C16_QuantitySync ==
    \A ev \in ItemSlotEvents :
        (/\ ~EvForced(ev)
         /\ PreSlot(ev) # NoItem
         /\ isStackableWith(PreSlot(ev), Rendering(ev, ev.preLogical))) =>
            /\ ev.writes = {}
            /\ PostSlot(ev) = PreSlot(ev)
            /\ IF /\ ev.preLogical # NoMachineItem
                  /\ PreSlot(ev).amount # ev.preLogical.count
               THEN /\ ev.ledger =
                         <<[slotId |-> ev.slotId,
                            item |-> [typeIndex |-> ev.preLogical.typeIndex,
                                      count |-> PreSlot(ev).amount],
                            notify |-> FALSE]>>
                    /\ PostLogical(ev) =
                         [typeIndex |-> ev.preLogical.typeIndex,
                          count |-> PreSlot(ev).amount]
                    /\ ev.cleanups = 0
                    /\ ev.spawned = << >>
                    /\ playerInv[trace.player] = ev.prePlayer
               ELSE NoSideEffects(ev)

C16_Witness ==
    \E ev \in ItemSlotEvents :
        /\ ~EvForced(ev)
        /\ isStackableWith(PreSlot(ev), Rendering(ev, ev.preLogical))
        /\ ev.preLogical # NoMachineItem
        /\ PreSlot(ev).amount # ev.preLogical.count
        /\ PostLogical(ev).count = PreSlot(ev).amount
        /\ PostSlot(ev) = PreSlot(ev)

\* the ledger writes of the pass that just resumed, over all its elements
LedgerWrites ==
    IF trace.op = "resume"
    THEN UNION {{trace.log[k].ledger[j] : j \in DOMAIN trace.log[k].ledger} :
                  k \in DOMAIN trace.log}
    ELSE {}

\* C17: every ledger write of a pass is made with notify = false: a pass
\* marks no slot as changed, and it writes no storage value.
C17_SilentCorrections ==
    [][trace'.op = "resume" =>
          /\ \A write \in LedgerWrites' : ~write.notify
          /\ \A b \in Blocks :
                machineChangedItemSlots'[b] \subseteq machineChangedItemSlots[b]
          /\ storage' = storage
      ]_vars

\* with no mark pending, a pass took a stack of another allowed kind as the
\* slot's new content
C17_Witness ==
    /\ trace.changedBefore = {}
    /\ \E ev \in ItemSlotEvents :
          /\ ev.branch = "retype"
          /\ ev.ledger # << >>
          /\ PostLogical(ev) # ev.preLogical

----------------------------------------------------------------------------
(* The interaction handler and the preconditions of a pass *)

\* C18: an interaction with an entity of the machine family whose type has
\* no machine definition fails and changes nothing: no session is set and
\* no pass is started.  When the definition exists the session of the
\* entity is set to the player and one init pass of that player is started
\* at once (it is suspended on the handler, or has rejected on the
\* definition's preconditions).
C18_UnregisteredInteraction ==
    [][trace'.op = "interact" =>
          IF ~DefinitionOf(trace'.entity).defined
          THEN /\ trace'.fatal
               /\ UNCHANGED <<valid, playersInUi, machineChangedItemSlots,
                              pending, container, slotItems, storage,
                              playerInv, machineRegistry>>
          ELSE /\ ~trace'.fatal
               /\ MapHas(playersInUi', trace'.entity)
               /\ PlayerOf(playersInUi', trace'.entity) = trace'.player
               /\ IF ReachesAwait(DefinitionOf(trace'.entity))
                  THEN pending' = pending (+)
                          SetToBag({Pass(DefinitionOf(trace'.entity),
                                         trace'.entity, trace'.player, TRUE)})
                  ELSE /\ pending' = pending
                       /\ trace'.entity \in trace'.rejected
      ]_vars

\* a player interacted with an entity attached to no machine while the
\* other machine was open
C18_Witness ==
    /\ trace.op = "interact"
    /\ trace.fatal
    /\ ~DefinitionOf(trace.entity).defined
    /\ playersInUi # << >>

\* the definition has no layout, or a layout and no update handler
LacksLayoutOrHandler(definition) ==
    definition.defined /\ (~definition.hasUi \/ ~definition.updateUiEvent)

\* the entities for which the step called updateEntityUi
Attempted ==
    IF trace.fatal THEN {}
    ELSE IF trace.op = "interact" THEN {trace.entity}
    ELSE IF trace.op = "tick" THEN trace.tracked \ trace.evicted
    ELSE {}

\* C19: a pass for a definition that has no layout, or has a layout and no
\* update handler, rejects before the handler is called: it is never
\* suspended on the handler, and the step that started it writes no
\* container slot, no logical slot, no player stack and no changed-slot
\* mark.
C19_DefinitionPrecondition ==
    [][/\ \A q \in BagToSet(pending') :
             ~LacksLayoutOrHandler(Lookup(machineRegistry, q.def))
       /\ \A e \in Attempted' :
             LacksLayoutOrHandler(DefinitionOf(e)) =>
                /\ e \in trace'.rejected
                /\ e \notin trace'.started
                /\ PendingOf(pending', e) = PendingOf(pending, e)
                /\ UNCHANGED <<container, slotItems, storage, playerInv,
                               machineChangedItemSlots>>
      ]_vars

\* a tick started a pass for the first machine and the pass of the second,
\* which has a layout and no update handler, rejected
C19_Witness ==
    /\ trace.op = "tick"
    /\ trace.started = {"e1"}
    /\ trace.rejected = {"e2"}
    /\ DefinitionOf("e2").hasUi
    /\ ~DefinitionOf("e2").updateUiEvent

----------------------------------------------------------------------------
(* Item entities spawned by the renderers *)

\* the stacks the renderers of the pass that just resumed spawned
SpawnedStacks ==
    IF trace.op = "resume"
    THEN UNION {{trace.log[k].spawned[j] : j \in DOMAIN trace.log[k].spawned} :
                  k \in DOMAIN trace.log}
    ELSE {}

\* C20: after a pass no UI item lies in the world, although its renderers
\* may have spawned some, and every other stack they spawned does.
C20_NoPersistentUiDrops ==
    /\ \A item \in trace.dropped : ~isUiItem(item)
    /\ \A item \in SpawnedStacks : ~isUiItem(item) => item \in trace.dropped

\* the renderers of one pass spawned a UI item and an ordinary item
C20_Witness ==
    /\ \E item \in SpawnedStacks : isUiItem(item)
    /\ \E item \in SpawnedStacks : ~isUiItem(item)

----------------------------------------------------------------------------
(* Drift cleanup *)

\* the stacks a player holds: the cursor and the inventory
Held(pl) == {pl.cursor} \cup {pl.inventory[i] : i \in DOMAIN pl.inventory}

\* the stack after the cleanup of a player who held it
Kept(item) == IF item # NoItem /\ isUiItem(item) THEN NoItem ELSE item

\* the player pl after a cleanup of the player pre
CleanedFrom(pre, pl) ==
    /\ pl.cursor = Kept(pre.cursor)
    /\ DOMAIN pl.inventory = DOMAIN pre.inventory
    /\ \A i \in DOMAIN pre.inventory : pl.inventory[i] = Kept(pre.inventory[i])
    /\ \A item \in Held(pl) : ~isUiItem(item)

\* C21: clearUiItemsFromPlayer empties the cursor when it holds a UI item
\* and every inventory slot that holds one, leaves every other stack as it
\* was, and returns true exactly when it emptied something; afterwards the
\* player holds no UI item.  The same holds of the player of a pass whose
\* renderers called it, and a pass changes its player in no other way.
C21_DriftCleanup ==
    [][/\ trace'.op = "cleanup" =>
            /\ CleanedFrom(playerInv[trace'.player], playerInv'[trace'.player])
            /\ trace'.anythingCleared <=>
                  \E item \in Held(playerInv[trace'.player]) : isUiItem(item)
            /\ \A p \in Players \ {trace'.player} :
                  playerInv'[p] = playerInv[p]
       /\ trace'.op = "resume" =>
            IF \E k \in DOMAIN trace'.log : trace'.log[k].cleanups >= 1
            THEN CleanedFrom(playerInv[trace'.player],
                             playerInv'[trace'.player])
            ELSE playerInv' = playerInv
      ]_vars

\* a cleanup emptied a UI item from the inventory and kept an ordinary
\* stack on the cursor
C21_Witness ==
    /\ trace.op = "cleanup"
    /\ trace.anythingCleared
    /\ playerInv["p1"].cursor = ItemStack("X", -1, 1)
    /\ playerInv["p1"].inventory[1] = NoItem

----------------------------------------------------------------------------
(* Agreement of the container slot and the logical slot *)

\* C22: when a call of handleItemSlot has returned, by any of its branches,
\* the container slot holds the rendering of the logical slot: the empty
\* placeholder when the logical slot is empty, else count items of
\* allowedItems[typeIndex].
C22_SlotLedgerAgreement ==
    \A ev \in ItemSlotEvents :
        PostSlot(ev) = Rendering(ev, PostLogical(ev))

\* a call rejected an item and emptied a logical slot that held one
C22_Witness ==
    \E ev \in ItemSlotEvents :
        /\ ev.branch = "reject"
        /\ ev.preLogical # NoMachineItem
        /\ PostLogical(ev) = NoMachineItem
        /\ PostSlot(ev) = EmptySlotItem

----------------------------------------------------------------------------
(* Writes of other scripts and the passes that follow them *)

\* C23: a logical slot that another script has changed, and that no pass
\* of its block's entity has rendered since, is force-rendered by the next
\* pass of that entity that renders: the pass leaves the logical content
\* as the script wrote it, whatever passes of other entities ran meanwhile.
C23_NoLostWrite ==
    [][(trace'.op = "resume" /\ ~trace'.invalid) =>
        \A k \in DOMAIN trace'.log :
            (/\ trace'.log[k].type = "itemSlot"
             /\ trace'.log[k].slotId
                  \in trace.unrendered[BlockOf(trace'.entity)]) =>
                /\ trace'.log[k].branch = "forced"
                /\ slotItems'[BlockOf(trace'.entity)][trace'.log[k].slotId]
                     = slotItems[BlockOf(trace'.entity)][trace'.log[k].slotId]
      ]_vars

----------------------------------------------------------------------------
(* The definition of a session *)

\* the definition the interaction handler resolves for the entity e
\* (lines 401-413): the registry entry of the machine id mapped from the
\* entity's type id
HandlerDefinition(e) ==
    Lookup(machineRegistry,
           machineEntityToBlockIdMap(machineRegistry, EntityTypeId(e)))

====
